---------------------------- MODULE Spec2Model ----------------------------
(***************************************************************************)
(* WattAI: cost of running a GPU workload in the cloud and locally.        *)
(*                                                                         *)
(* Model of src/wattai.py (validate_inputs, calculate_cloud_cost,          *)
(* calculate_local_cost over GPU_DATABASE) and of find_cheapest_option in  *)
(* src/wattai_app.py.                                                      *)
(*                                                                         *)
(* Numbers: Python floats are modelled as exact rationals [n, d] in lowest *)
(* terms with d > 0.  The model therefore covers finite inputs and does    *)
(* not cover float rounding, overflow to inf, or NaN.                      *)
(***************************************************************************)
EXTENDS Integers, Sequences, FiniteSets, TLC

VARIABLES
    GPU_DATABASE,   \* the catalog: a sequence of [name, watts, hourly_cost_usd], keys unique, in dict order
    call,           \* the last call: [fn, electricity_cost_usd, gpu_name, hours]
    result,         \* what the last call returned or raised
    reports,        \* what the last call wrote with st.error, in order
    cost_calls      \* how many calculate_*_cost calls the last call made

vars == <<GPU_DATABASE, call, result, reports, cost_calls>>

---------------------------------------------------------------------------
(* Bounds of the model *)

MaxCatalog == 3

MaxPriceCents == 2

MaxHalfHours == 2

---------------------------------------------------------------------------
(* Exact rational arithmetic standing for +, *, / and < on finite floats *)

Abs(x) == IF x < 0 THEN -x ELSE x

RECURSIVE GCD(_, _)
GCD(a, b) == IF b = 0 THEN a ELSE GCD(b, a % b)

Rat(n, d) ==
    LET s == IF d < 0 THEN -1 ELSE 1
        g == GCD(Abs(n), Abs(d))
    IN  [n |-> (s * n) \div g, d |-> (s * d) \div g]

RMul(a, b) == Rat(a.n * b.n, a.d * b.d)

RDiv(a, b) == Rat(a.n * b.d, a.d * b.n)

RAdd(a, b) == Rat(a.n * b.d + b.n * a.d, a.d * b.d)

RLess(a, b) == a.n * b.d < b.n * a.d

Zero == Rat(0, 1)

---------------------------------------------------------------------------
(* Constants of the program *)

DEFAULT_ELECTRICITY_COST_USD == Rat(10, 100)

WATTS_TO_KWH_CONVERSION == 1000

BENCHMARK_ELECTRICITY_COST == DEFAULT_ELECTRICITY_COST_USD

BENCHMARK_HOURS == Rat(1, 1)

DEFAULT_HOURS == Rat(10, 1)

\* The table the program ships with.
ShippedDatabase ==
    << [name |-> "RTX 3090", watts |-> 350, hourly_cost_usd |-> Rat(180, 100)],
       [name |-> "A100",     watts |-> 400, hourly_cost_usd |-> Rat(350, 100)],
       [name |-> "RTX 4090", watts |-> 450, hourly_cost_usd |-> Rat(220, 100)] >>

\* GPU records catalogs are built from: the shipped ones, one with the same
\* figures as the RTX 3090 under another key, and one whose cloud price is 0.
GpuPool ==
    { ShippedDatabase[i] : i \in 1..Len(ShippedDatabase) } \cup
    { [name |-> "TWIN 3090", watts |-> 350, hourly_cost_usd |-> Rat(180, 100)],
      [name |-> "FREE 350",  watts |-> 350, hourly_cost_usd |-> Zero] }

\* Every catalog of at most MaxCatalog records with unique keys, in every order.
Catalogs ==
    UNION { { s \in [1..k -> GpuPool] :
                \A i, j \in 1..k : i # j => s[i].name # s[j].name } :
            k \in 0..MaxCatalog }

Keys == [i \in 1..Len(GPU_DATABASE) |-> GPU_DATABASE[i].name]

InDatabase(gpu_name) == \E i \in 1..Len(GPU_DATABASE) : GPU_DATABASE[i].name = gpu_name

Lookup(gpu_name) ==
    GPU_DATABASE[CHOOSE i \in 1..Len(GPU_DATABASE) : GPU_DATABASE[i].name = gpu_name]

---------------------------------------------------------------------------
(* Inputs *)

Prices == { Rat(k, 100) : k \in -1..MaxPriceCents } \cup { DEFAULT_ELECTRICITY_COST_USD }

Hours == { Rat(k, 2) : k \in -1..MaxHalfHours } \cup { BENCHMARK_HOURS, DEFAULT_HOURS }

GpuNames == { g.name : g \in GpuPool } \cup { "nonexistent-gpu" }

---------------------------------------------------------------------------
(* src/wattai.py *)

InvalidInputError(msg) == [kind |-> "InvalidInputError", msg |-> msg]

GPUNotFoundError(gpu_name) ==
    [kind |-> "GPUNotFoundError", gpu_name |-> gpu_name, available |-> Keys]

Passed == [kind |-> "passed"]

\* Variant: <= in place of <, so that 0 is rejected.
validate_inputs_le(electricity_cost_usd, hours) ==
    IF ~RLess(Zero, electricity_cost_usd)
    THEN InvalidInputError("Electricity cost cannot be negative")
    ELSE IF ~RLess(Zero, hours)
    THEN InvalidInputError("Hours cannot be negative")
    ELSE Passed

validate_inputs(electricity_cost_usd, hours) ==
    IF RLess(electricity_cost_usd, Zero)
    THEN InvalidInputError("Electricity cost cannot be negative")
    ELSE IF RLess(hours, Zero)
    THEN InvalidInputError("Hours cannot be negative")
    ELSE Passed

\* Variant: the division by WATTS_TO_KWH_CONVERSION is left out.
calculate_cloud_cost_no_conversion(electricity_cost_usd, gpu_name, hours) ==
    LET v == validate_inputs(electricity_cost_usd, hours) IN
    IF v.kind # "passed" THEN v
    ELSE IF ~InDatabase(gpu_name) THEN GPUNotFoundError(gpu_name)
    ELSE
        LET gpu == Lookup(gpu_name)
            energy_kwh == RMul(Rat(gpu.watts, 1), hours)
            energy_cost == RMul(energy_kwh, electricity_cost_usd)
            compute_cost == RMul(gpu.hourly_cost_usd, hours)
        IN  [kind |-> "ok",
             energy_kwh |-> energy_kwh,
             energy_cost_usd |-> energy_cost,
             compute_cost_usd |-> compute_cost,
             total_cost_usd |-> RAdd(energy_cost, compute_cost)]

\* Variant: the hourly price is charged once, not per hour.
calculate_cloud_cost_flat_fee(electricity_cost_usd, gpu_name, hours) ==
    LET v == validate_inputs(electricity_cost_usd, hours) IN
    IF v.kind # "passed" THEN v
    ELSE IF ~InDatabase(gpu_name) THEN GPUNotFoundError(gpu_name)
    ELSE
        LET gpu == Lookup(gpu_name)
            energy_kwh == RDiv(RMul(Rat(gpu.watts, 1), hours), Rat(WATTS_TO_KWH_CONVERSION, 1))
            energy_cost == RMul(energy_kwh, electricity_cost_usd)
            compute_cost == gpu.hourly_cost_usd
        IN  [kind |-> "ok",
             energy_kwh |-> energy_kwh,
             energy_cost_usd |-> energy_cost,
             compute_cost_usd |-> compute_cost,
             total_cost_usd |-> RAdd(energy_cost, compute_cost)]

\* Variant: the catalog lookup comes before validate_inputs.
calculate_cloud_cost_lookup_first(electricity_cost_usd, gpu_name, hours) ==
    IF ~InDatabase(gpu_name) THEN GPUNotFoundError(gpu_name)
    ELSE
    LET v == validate_inputs(electricity_cost_usd, hours) IN
    IF v.kind # "passed" THEN v
    ELSE
        LET gpu == Lookup(gpu_name)
            energy_kwh == RDiv(RMul(Rat(gpu.watts, 1), hours), Rat(WATTS_TO_KWH_CONVERSION, 1))
            energy_cost == RMul(energy_kwh, electricity_cost_usd)
            compute_cost == RMul(gpu.hourly_cost_usd, hours)
        IN  [kind |-> "ok",
             energy_kwh |-> energy_kwh,
             energy_cost_usd |-> energy_cost,
             compute_cost_usd |-> compute_cost,
             total_cost_usd |-> RAdd(energy_cost, compute_cost)]

calculate_cloud_cost(electricity_cost_usd, gpu_name, hours) ==
    LET v == validate_inputs(electricity_cost_usd, hours) IN
    IF v.kind # "passed" THEN v
    ELSE IF ~InDatabase(gpu_name) THEN GPUNotFoundError(gpu_name)
    ELSE
        LET gpu == Lookup(gpu_name)
            gpu_watts == gpu.watts
            gpu_hourly_cost == gpu.hourly_cost_usd
            energy_kwh == RDiv(RMul(Rat(gpu_watts, 1), hours), Rat(WATTS_TO_KWH_CONVERSION, 1))
            energy_cost == RMul(energy_kwh, electricity_cost_usd)
            compute_cost == RMul(gpu_hourly_cost, hours)
            total_cost == RAdd(energy_cost, compute_cost)
        IN  [kind |-> "ok",
             energy_kwh |-> energy_kwh,
             energy_cost_usd |-> energy_cost,
             compute_cost_usd |-> compute_cost,
             total_cost_usd |-> total_cost]

\* Variant: no membership test, so GPU_DATABASE[gpu_name] raises KeyError.
calculate_local_cost_no_membership_check(electricity_cost_usd, gpu_name, hours) ==
    LET v == validate_inputs(electricity_cost_usd, hours) IN
    IF v.kind # "passed" THEN v
    ELSE IF ~InDatabase(gpu_name) THEN [kind |-> "KeyError", gpu_name |-> gpu_name]
    ELSE
        LET gpu == Lookup(gpu_name)
            energy_kwh == RDiv(RMul(Rat(gpu.watts, 1), hours), Rat(WATTS_TO_KWH_CONVERSION, 1))
            energy_cost == RMul(energy_kwh, electricity_cost_usd)
        IN  [kind |-> "ok",
             energy_kwh |-> energy_kwh,
             energy_cost_usd |-> energy_cost,
             total_cost_usd |-> energy_cost]

\* Variant: the local total includes the cloud rental.
calculate_local_cost_with_rental(electricity_cost_usd, gpu_name, hours) ==
    LET v == validate_inputs(electricity_cost_usd, hours) IN
    IF v.kind # "passed" THEN v
    ELSE IF ~InDatabase(gpu_name) THEN GPUNotFoundError(gpu_name)
    ELSE
        LET gpu == Lookup(gpu_name)
            energy_kwh == RDiv(RMul(Rat(gpu.watts, 1), hours), Rat(WATTS_TO_KWH_CONVERSION, 1))
            energy_cost == RMul(energy_kwh, electricity_cost_usd)
        IN  [kind |-> "ok",
             energy_kwh |-> energy_kwh,
             energy_cost_usd |-> energy_cost,
             total_cost_usd |-> RAdd(energy_cost, RMul(gpu.hourly_cost_usd, hours))]

calculate_local_cost(electricity_cost_usd, gpu_name, hours) ==
    LET v == validate_inputs(electricity_cost_usd, hours) IN
    IF v.kind # "passed" THEN v
    ELSE IF ~InDatabase(gpu_name) THEN GPUNotFoundError(gpu_name)
    ELSE
        LET gpu == Lookup(gpu_name)
            gpu_watts == gpu.watts
            energy_kwh == RDiv(RMul(Rat(gpu_watts, 1), hours), Rat(WATTS_TO_KWH_CONVERSION, 1))
            energy_cost == RMul(energy_kwh, electricity_cost_usd)
        IN  [kind |-> "ok",
             energy_kwh |-> energy_kwh,
             energy_cost_usd |-> energy_cost,
             total_cost_usd |-> energy_cost]

---------------------------------------------------------------------------
(* src/wattai_app.py: find_cheapest_option.  The function body is modelled; *)
(* the memoisation of the st.cache_data decorator is not.                  *)

None == [n |-> 0, d |-> 0]

NoLabel == [mode |-> "", gpu_name |-> ""]

NotRaised == [kind |-> "none"]

ReturnNone == [kind |-> "None"]

\* f"<mode> - {gpu_name}"
Label(mode, gpu_name) == [mode |-> mode, gpu_name |-> gpu_name]

\* f"Error calculating costs for {gpu_name}: {str(e)}"
ErrorReport(gpu_name, e) == [gpu_name |-> gpu_name, error |-> e]

\* Variant: <= in place of <, so that a later option takes a tie.
CheaperOrEqual(price, cheapest_price) == ~RLess(cheapest_price, price)

\* Variant: > in place of <.
Dearer(price, cheapest_price) == RLess(cheapest_price, price)

\* price < cheapest_price
Cheaper(price, cheapest_price) == RLess(price, cheapest_price)

\* Variant: except GPUNotFoundError alone.
CaughtOnlyGPUNotFound(e) == e.kind = "GPUNotFoundError"

\* except (GPUNotFoundError, InvalidInputError)
Caught(e) == e.kind \in {"GPUNotFoundError", "InvalidInputError"}

\* The except clause, or the exception leaving the function when no clause takes it.
Handle(acc, e, gpu_name) ==
    IF Caught(e)
    THEN [acc EXCEPT !.reports = Append(@, ErrorReport(gpu_name, e))]
    ELSE [acc EXCEPT !.raised = e]

ScanInit ==
    [cheapest_price |-> None, cheapest_label |-> NoLabel,
     reports |-> <<>>, calls |-> 0, raised |-> NotRaised]

\* One iteration of the loop body.
ScanStep(acc, gpu_name, electricity_cost, hours) ==
    IF acc.raised.kind # "none" THEN acc
    ELSE
    LET cloud == calculate_cloud_cost(electricity_cost, gpu_name, hours) IN
    IF cloud.kind # "ok"
    THEN Handle([acc EXCEPT !.calls = @ + 1], cloud, gpu_name)
    ELSE
    LET local == calculate_local_cost(electricity_cost, gpu_name, hours) IN
    IF local.kind # "ok"
    THEN Handle([acc EXCEPT !.calls = @ + 2], local, gpu_name)
    ELSE
    LET cloud_price == cloud.total_cost_usd
        a1 == IF acc.cheapest_price = None \/ Cheaper(cloud_price, acc.cheapest_price)
              THEN [acc EXCEPT !.cheapest_price = cloud_price,
                               !.cheapest_label = Label("Cloud", gpu_name)]
              ELSE acc
        local_price == local.total_cost_usd
        a2 == IF Cheaper(local_price, a1.cheapest_price)
              THEN [a1 EXCEPT !.cheapest_price = local_price,
                              !.cheapest_label = Label("Local", gpu_name)]
              ELSE a1
    IN  [a2 EXCEPT !.calls = @ + 2]

\* for gpu_name in GPU_DATABASE, from the i-th key on
RECURSIVE Scan(_, _, _, _)
Scan(acc, i, electricity_cost, hours) ==
    IF i > Len(GPU_DATABASE) THEN acc
    ELSE Scan(ScanStep(acc, GPU_DATABASE[i].name, electricity_cost, hours),
              i + 1, electricity_cost, hours)

Outcome(ret, acc) == [ret |-> ret, reports |-> acc.reports, calls |-> acc.calls]

\* Variant: if GPU_DATABASE in place of if not GPU_DATABASE.
find_cheapest_option_inverted_guard(electricity_cost, hours) ==
    IF Len(GPU_DATABASE) # 0 THEN Outcome(ReturnNone, ScanInit)
    ELSE
    LET acc == Scan(ScanInit, 1, electricity_cost, hours) IN
    IF acc.raised.kind # "none" THEN Outcome(acc.raised, acc)
    ELSE IF acc.cheapest_price = None THEN Outcome(ReturnNone, acc)
    ELSE Outcome([kind |-> "tuple", label |-> acc.cheapest_label,
                  price |-> acc.cheapest_price], acc)

find_cheapest_option(electricity_cost, hours) ==
    IF Len(GPU_DATABASE) = 0 THEN Outcome(ReturnNone, ScanInit)
    ELSE
    LET acc == Scan(ScanInit, 1, electricity_cost, hours) IN
    IF acc.raised.kind # "none" THEN Outcome(acc.raised, acc)
    ELSE IF acc.cheapest_price = None THEN Outcome(ReturnNone, acc)
    ELSE Outcome([kind |-> "tuple", label |-> acc.cheapest_label,
                  price |-> acc.cheapest_price], acc)

---------------------------------------------------------------------------
(* The state machine: one action per entry point, one call at a time *)

NoCall == [fn |-> "none", electricity_cost_usd |-> Zero, gpu_name |-> "", hours |-> Zero]

Init ==
    /\ GPU_DATABASE \in Catalogs
    /\ call = NoCall
    /\ result = [kind |-> "none"]
    /\ reports = <<>>
    /\ cost_calls = 0

CallCloud ==
    \E p \in Prices, g \in GpuNames, h \in Hours :
        /\ call = NoCall
        /\ call' = [fn |-> "cloud", electricity_cost_usd |-> p, gpu_name |-> g, hours |-> h]
        /\ result' = calculate_cloud_cost(p, g, h)
        /\ reports' = <<>>
        /\ cost_calls' = 1
        /\ UNCHANGED GPU_DATABASE

CallLocal ==
    \E p \in Prices, g \in GpuNames, h \in Hours :
        /\ call = NoCall
        /\ call' = [fn |-> "local", electricity_cost_usd |-> p, gpu_name |-> g, hours |-> h]
        /\ result' = calculate_local_cost(p, g, h)
        /\ reports' = <<>>
        /\ cost_calls' = 1
        /\ UNCHANGED GPU_DATABASE

CallCheapest ==
    \E p \in Prices, h \in Hours :
        LET out == find_cheapest_option(p, h) IN
        /\ call = NoCall
        /\ call' = [fn |-> "cheapest", electricity_cost_usd |-> p, gpu_name |-> "", hours |-> h]
        /\ result' = out.ret
        /\ reports' = out.reports
        /\ cost_calls' = out.calls
        /\ UNCHANGED GPU_DATABASE

\* The caller has taken the result; nothing of a call outlives it.
Return ==
    /\ call # NoCall
    /\ call' = NoCall
    /\ result' = [kind |-> "none"]
    /\ reports' = <<>>
    /\ cost_calls' = 0
    /\ UNCHANGED GPU_DATABASE

Next == CallCloud \/ CallLocal \/ CallCheapest \/ Return

Spec == Init /\ [][Next]_vars

---------------------------------------------------------------------------
(* What the properties are stated with.  The expected figures are written  *)
(* out from the formulas, as single fractions, apart from the operators    *)
(* above.                                                                  *)

NonNeg(x) == x.n >= 0

Negative(x) == x.n < 0

ValidArgs == NonNeg(call.electricity_cost_usd) /\ NonNeg(call.hours)

CatalogNames == { GPU_DATABASE[i].name : i \in 1..Len(GPU_DATABASE) }

Record(gpu_name) == CHOOSE g \in { GPU_DATABASE[i] : i \in 1..Len(GPU_DATABASE) } : g.name = gpu_name

\* watts * hours / 1000
ExpEnergyKwh(g, h) == Rat(g.watts * h.n, 1000 * h.d)

\* watts * hours / 1000 * price
ExpEnergyCost(g, p, h) == Rat(g.watts * h.n * p.n, 1000 * h.d * p.d)

\* hourly price * hours
ExpComputeCost(g, h) == Rat(g.hourly_cost_usd.n * h.n, g.hourly_cost_usd.d * h.d)

ExpTotal(mode, g, p, h) ==
    IF mode = "Cloud"
    THEN RAdd(ExpEnergyCost(g, p, h), ExpComputeCost(g, h))
    ELSE ExpEnergyCost(g, p, h)

Modes == {"Cloud", "Local"}

\* The total of option (mode, i-th GPU) for the arguments of the last call.
OptionTotal(mode, i) ==
    ExpTotal(mode, GPU_DATABASE[i], call.electricity_cost_usd, call.hours)

\* The place of option (mode, i-th GPU) in the scan: cloud before local for each GPU.
Place(mode, i) == 2 * i + (IF mode = "Local" THEN 1 ELSE 0)

IndexOf(gpu_name) == CHOOSE i \in 1..Len(GPU_DATABASE) : GPU_DATABASE[i].name = gpu_name

CostCall == call.fn \in {"cloud", "local"}

---------------------------------------------------------------------------
(* Properties *)

\* C1: for electricity cost >= 0 and hours >= 0 and a non-empty catalog,
\* find_cheapest_option returns a (label, price) whose price is the minimum
\* total over all (mode, GPU) options and whose label names an option with
\* that total; with one GPU whose cloud total exceeds its local total it
\* returns the local label with the local total.
C1_CheapestIsGlobalMinimum ==
    (call.fn = "cheapest" /\ ValidArgs /\ Len(GPU_DATABASE) > 0) =>
        /\ result.kind = "tuple"
        /\ \A i \in 1..Len(GPU_DATABASE), m \in Modes :
              ~RLess(OptionTotal(m, i), result.price)
        /\ \E i \in 1..Len(GPU_DATABASE), m \in Modes :
              /\ result.label = Label(m, GPU_DATABASE[i].name)
              /\ OptionTotal(m, i) = result.price
        /\ (Len(GPU_DATABASE) = 1 /\ RLess(OptionTotal("Local", 1), OptionTotal("Cloud", 1))) =>
              /\ result.label = Label("Local", GPU_DATABASE[1].name)
              /\ result.price = calculate_local_cost(call.electricity_cost_usd,
                                    GPU_DATABASE[1].name, call.hours).total_cost_usd

\* A scan of two or more GPUs whose cheapest option is a local one of a GPU that is not the first.
C1_Witness ==
    /\ call.fn = "cheapest" /\ ValidArgs
    /\ Len(GPU_DATABASE) >= 2
    /\ result.kind = "tuple"
    /\ result.label.mode = "Local"
    /\ result.label.gpu_name # GPU_DATABASE[1].name
    /\ result.price # Zero

\* C2: among options sharing the minimum total the scan returns the one met
\* first (catalog order, cloud before local): every option before the
\* returned one is strictly dearer; with hours = 0 the result is the cloud
\* option of the first GPU.
C2_FirstEncounteredWinsTies ==
    (call.fn = "cheapest" /\ result.kind = "tuple") =>
        /\ result.label.mode \in Modes
        /\ result.label.gpu_name \in CatalogNames
        /\ LET at == Place(result.label.mode, IndexOf(result.label.gpu_name)) IN
           /\ OptionTotal(result.label.mode, IndexOf(result.label.gpu_name)) = result.price
           /\ \A i \in 1..Len(GPU_DATABASE), m \in Modes :
                 Place(m, i) < at => RLess(result.price, OptionTotal(m, i))
        /\ call.hours = Zero => result.label = Label("Cloud", GPU_DATABASE[1].name)

\* Two different GPUs tie at the minimum with hours > 0, and the earlier one is returned.
C2_Witness ==
    /\ call.fn = "cheapest" /\ result.kind = "tuple"
    /\ call.hours # Zero
    /\ \E i \in 1..Len(GPU_DATABASE), m \in Modes :
          /\ GPU_DATABASE[i].name # result.label.gpu_name
          /\ OptionTotal(m, i) = result.price
          /\ Place(m, i) > Place(result.label.mode, IndexOf(result.label.gpu_name))

FailedEntries ==
    { i \in 1..Len(GPU_DATABASE) :
        \/ calculate_cloud_cost(call.electricity_cost_usd, GPU_DATABASE[i].name, call.hours).kind # "ok"
        \/ calculate_local_cost(call.electricity_cost_usd, GPU_DATABASE[i].name, call.hours).kind # "ok" }

\* C3: find_cheapest_option never fails with InvalidInputError or
\* GPUNotFoundError: each entry whose computation fails is reported once, in
\* order, and skipped, and the result is the minimum over the entries that
\* did not fail, None when there is none.
C3_ScanSkipsAndReportsFailures ==
    call.fn = "cheapest" =>
        LET ok == (1..Len(GPU_DATABASE)) \ FailedEntries IN
        /\ result.kind \in {"tuple", "None"}
        /\ Len(reports) = Cardinality(FailedEntries)
        /\ \A i \in FailedEntries :
              Cardinality({ k \in 1..Len(reports) : reports[k].gpu_name = GPU_DATABASE[i].name }) = 1
        /\ \A k \in 1..Len(reports) :
              /\ \E i \in FailedEntries : reports[k].gpu_name = GPU_DATABASE[i].name
              /\ reports[k].error.kind \in {"InvalidInputError", "GPUNotFoundError"}
        /\ \A k, l \in 1..Len(reports) :
              k < l => IndexOf(reports[k].gpu_name) < IndexOf(reports[l].gpu_name)
        /\ (ok = {}) <=> (result.kind = "None")
        /\ (ok # {}) =>
              /\ \A i \in ok, m \in Modes : ~RLess(OptionTotal(m, i), result.price)
              /\ \E i \in ok, m \in Modes : OptionTotal(m, i) = result.price
        /\ (~ValidArgs /\ Len(GPU_DATABASE) > 0) => result.kind = "None"

\* A scan with a negative argument over several GPUs: one report per GPU, result None.
C3_Witness ==
    /\ call.fn = "cheapest"
    /\ ~ValidArgs
    /\ Len(GPU_DATABASE) >= 2
    /\ Len(reports) = Len(GPU_DATABASE)
    /\ reports[2].gpu_name = GPU_DATABASE[2].name
    /\ result.kind = "None"

\* C4: for a gpu_name that is no key of the catalog and electricity cost >= 0
\* and hours >= 0, calculate_cloud_cost and calculate_local_cost raise
\* GPUNotFoundError, return no breakdown, and the error carries the gpu_name
\* and the list of all catalog keys.
C4_UnknownGpuRaisesNotFound ==
    (CostCall /\ ValidArgs /\ call.gpu_name \notin CatalogNames) =>
        /\ result.kind = "GPUNotFoundError"
        /\ result.gpu_name = call.gpu_name
        /\ result.available = [i \in 1..Len(GPU_DATABASE) |-> GPU_DATABASE[i].name]

\* calculate_local_cost(0.10, "nonexistent-gpu", 10) over the shipped table.
C4_Witness ==
    /\ call.fn = "local"
    /\ call.gpu_name = "nonexistent-gpu"
    /\ call.electricity_cost_usd = DEFAULT_ELECTRICITY_COST_USD
    /\ call.hours = DEFAULT_HOURS
    /\ GPU_DATABASE = ShippedDatabase
    /\ result.kind = "GPUNotFoundError"

\* C5: for a gpu_name in the catalog, calculate_cloud_cost and
\* calculate_local_cost raise InvalidInputError exactly when electricity cost
\* < 0 or hours < 0; with both >= 0, 0 included, neither fails.
C5_InvalidInputIffNegative ==
    (CostCall /\ call.gpu_name \in CatalogNames) =>
        /\ (result.kind = "InvalidInputError") <=>
              (Negative(call.electricity_cost_usd) \/ Negative(call.hours))
        /\ ValidArgs => result.kind = "ok"

\* calculate_local_cost(-0.01, "RTX 3090", h) with h >= 0 raises InvalidInputError.
C5_Witness ==
    /\ call.fn = "local"
    /\ call.electricity_cost_usd = Rat(-1, 100)
    /\ call.gpu_name = "RTX 3090"
    /\ "RTX 3090" \in CatalogNames
    /\ NonNeg(call.hours)
    /\ result.kind = "InvalidInputError"

\* C6: for a gpu_name in the catalog, p >= 0 and h >= 0, the cloud total is
\* the local total plus hourly price * h, hence at least the local total,
\* and both functions return the same energy_kwh and energy_cost_usd.
C6_CloudIsLocalPlusRental ==
    (CostCall /\ ValidArgs /\ call.gpu_name \in CatalogNames) =>
        LET p == call.electricity_cost_usd
            h == call.hours
            cloud == IF call.fn = "cloud" THEN result ELSE calculate_cloud_cost(p, call.gpu_name, h)
            local == IF call.fn = "local" THEN result ELSE calculate_local_cost(p, call.gpu_name, h)
        IN  /\ cloud.kind = "ok" /\ local.kind = "ok"
            /\ cloud.total_cost_usd =
                  RAdd(local.total_cost_usd, ExpComputeCost(Record(call.gpu_name), h))
            /\ ~RLess(cloud.total_cost_usd, local.total_cost_usd)
            /\ cloud.energy_kwh = local.energy_kwh
            /\ cloud.energy_cost_usd = local.energy_cost_usd

\* A cloud call whose total is strictly above the local total, with a non-zero local total.
C6_Witness ==
    /\ call.fn = "cloud" /\ ValidArgs
    /\ result.kind = "ok"
    /\ result.energy_cost_usd # Zero
    /\ RLess(result.energy_cost_usd, result.total_cost_usd)

\* C7: for a gpu_name in the catalog, electricity cost >= 0 and hours >= 0,
\* calculate_cloud_cost returns energy_kwh = watts * hours / 1000,
\* energy_cost_usd = energy_kwh * electricity cost, compute_cost_usd = hourly
\* price * hours, total_cost_usd = energy_cost_usd + compute_cost_usd, all >= 0.
C7_CloudBreakdown ==
    (call.fn = "cloud" /\ ValidArgs /\ call.gpu_name \in CatalogNames) =>
        LET g == Record(call.gpu_name)
            p == call.electricity_cost_usd
            h == call.hours
        IN  /\ result.kind = "ok"
            /\ result.energy_kwh = ExpEnergyKwh(g, h)
            /\ result.energy_cost_usd = ExpEnergyCost(g, p, h)
            /\ result.compute_cost_usd = ExpComputeCost(g, h)
            /\ result.total_cost_usd = RAdd(result.energy_cost_usd, result.compute_cost_usd)
            /\ NonNeg(result.energy_kwh) /\ NonNeg(result.energy_cost_usd)
            /\ NonNeg(result.compute_cost_usd) /\ NonNeg(result.total_cost_usd)

\* calculate_cloud_cost(0.10, "RTX 3090", 10): 3.5 kWh, 0.35 + 18.0 = 18.35.
C7_Witness ==
    /\ call = [fn |-> "cloud", electricity_cost_usd |-> DEFAULT_ELECTRICITY_COST_USD,
               gpu_name |-> "RTX 3090", hours |-> DEFAULT_HOURS]
    /\ result.kind = "ok"
    /\ result.energy_kwh = Rat(35, 10)
    /\ result.energy_cost_usd = Rat(35, 100)
    /\ result.compute_cost_usd = Rat(18, 1)
    /\ result.total_cost_usd = Rat(1835, 100)

\* C8: for a gpu_name in the catalog and electricity cost >= 0, hours = 0
\* makes both functions succeed with every figure 0.
C8_ZeroHoursCostNothing ==
    (CostCall /\ call.hours = Zero /\ NonNeg(call.electricity_cost_usd)
        /\ call.gpu_name \in CatalogNames) =>
        /\ result.kind = "ok"
        /\ result.total_cost_usd = Zero
        /\ result.energy_kwh = Zero
        /\ result.energy_cost_usd = Zero
        /\ call.fn = "cloud" => result.compute_cost_usd = Zero

\* A cloud call with hours = 0 and a positive electricity cost for a GPU with a positive hourly price.
C8_Witness ==
    /\ call.fn = "cloud"
    /\ call.hours = Zero
    /\ call.electricity_cost_usd = DEFAULT_ELECTRICITY_COST_USD
    /\ call.gpu_name = "A100" /\ "A100" \in CatalogNames
    /\ result.kind = "ok"
    /\ result.total_cost_usd = Zero

\* C9: with an empty catalog find_cheapest_option returns None for every
\* electricity cost and hours, negative ones included, without failing,
\* computing a cost or reporting an error; with a non-empty catalog and
\* electricity cost >= 0 and hours >= 0 it never returns None.
C9_EmptyCatalogReturnsNone ==
    call.fn = "cheapest" =>
        /\ Len(GPU_DATABASE) = 0 =>
              (result = ReturnNone /\ reports = <<>> /\ cost_calls = 0)
        /\ (Len(GPU_DATABASE) > 0 /\ ValidArgs) => result.kind = "tuple"

\* The scan of an empty catalog with both arguments negative.
C9_Witness ==
    /\ call.fn = "cheapest"
    /\ Len(GPU_DATABASE) = 0
    /\ Negative(call.electricity_cost_usd) /\ Negative(call.hours)
    /\ result = ReturnNone

\* C10: validation precedes the catalog lookup and the electricity-cost check
\* precedes the hours check: a negative argument gives InvalidInputError
\* whether or not gpu_name is a key, and with both negative the message is
\* the electricity-cost one.
C10_ValidationBeforeLookup ==
    (CostCall /\ ~ValidArgs) =>
        /\ result.kind = "InvalidInputError"
        /\ Negative(call.electricity_cost_usd) =>
              result.msg = "Electricity cost cannot be negative"
        /\ ~Negative(call.electricity_cost_usd) =>
              result.msg = "Hours cannot be negative"

\* A cloud call with both arguments negative and a gpu_name that is no key.
C10_Witness ==
    /\ call.fn = "cloud"
    /\ Negative(call.electricity_cost_usd) /\ Negative(call.hours)
    /\ call.gpu_name \notin CatalogNames
    /\ Len(GPU_DATABASE) > 0
    /\ result.kind = "InvalidInputError"
    /\ result.msg = "Electricity cost cannot be negative"

===========================================================================
